---- MODULE Spec2Model ----
(***************************************************************************)
(* Model of the htmx helpers of django-nifty-attachments                   *)
(*   src/tests/htmx_clone/middleware.py  (event merge, response mutators,  *)
(*                                        pending operations, middleware)  *)
(*   src/tests/htmx_clone/forms.py       (DynamicHXChoiceField)            *)
(*                                                                         *)
(* Text is modelled as sequences of one-character strings, so that         *)
(* splitting, trimming, JSON encoding and JSON decoding are computed and   *)
(* not assumed.  Python values are records of one shape (PyVal):           *)
(*   t  : "str" | "int" | "bool" | "None" | "dict" | "list"                *)
(*   s  : the characters of a str                                          *)
(*   n  : the value of an int, 1/0 for a bool                              *)
(*   kv : the <<key, value>> pairs of a dict, in insertion order           *)
(*   xs : the elements of a list                                           *)
(***************************************************************************)
EXTENDS Integers, Sequences, FiniteSets, TLC

(***************************************************************************)
(* Python values                                                           *)
(***************************************************************************)
PStr(s)   == [t |-> "str",  s |-> s,    n |-> 0, kv |-> <<>>, xs |-> <<>>]
PInt(n)   == [t |-> "int",  s |-> <<>>, n |-> n, kv |-> <<>>, xs |-> <<>>]
PBool(b)  == [t |-> "bool", s |-> <<>>, n |-> IF b THEN 1 ELSE 0, kv |-> <<>>, xs |-> <<>>]
PNone     == [t |-> "None", s |-> <<>>, n |-> 0, kv |-> <<>>, xs |-> <<>>]
PDict(kv) == [t |-> "dict", s |-> <<>>, n |-> 0, kv |-> kv,   xs |-> <<>>]
PList(xs) == [t |-> "list", s |-> <<>>, n |-> 0, kv |-> <<>>, xs |-> xs]

\* bool(v): Python truthiness, as used by any(), `if config` and `and`.
Truthy(v) ==
    CASE v.t = "str"  -> v.s # <<>>
      [] v.t = "int"  -> v.n # 0
      [] v.t = "bool" -> v.n = 1
      [] v.t = "None" -> FALSE
      [] v.t = "dict" -> v.kv # <<>>
      [] v.t = "list" -> v.xs # <<>>

\* dict lookups and dict.__setitem__: an existing key keeps its position.
RECURSIVE KeyIndex(_, _, _)
KeyIndex(kv, k, i) ==
    IF i > Len(kv) THEN 0
    ELSE IF kv[i][1] = k THEN i
    ELSE KeyIndex(kv, k, i + 1)

HasKey(kv, k) == KeyIndex(kv, k, 1) # 0
GetKey(kv, k) == kv[KeyIndex(kv, k, 1)][2]
Keys(kv)      == [i \in 1..Len(kv) |-> kv[i][1]]
KeySet(kv)    == {kv[i][1] : i \in 1..Len(kv)}

DictSet(kv, k, v) ==
    IF HasKey(kv, k)
    THEN [kv EXCEPT ![KeyIndex(kv, k, 1)] = <<k, v>>]
    ELSE Append(kv, <<k, v>>)

\* {**a, **b} and a.update(b): b's pairs are stored over a's, in b's order.
RECURSIVE DictUpdate(_, _)
DictUpdate(a, b) ==
    IF b = <<>> THEN a
    ELSE DictUpdate(DictSet(a, b[1][1], b[1][2]), Tail(b))

(***************************************************************************)
(* Text helpers                                                            *)
(***************************************************************************)
Whitespace == {" ", "\t", "\n", "\r"}
Digits     == {"0", "1", "2", "3", "4", "5", "6", "7", "8", "9"}
DigitVal   == ("0" :> 0) @@ ("1" :> 1) @@ ("2" :> 2) @@ ("3" :> 3) @@ ("4" :> 4) @@
              ("5" :> 5) @@ ("6" :> 6) @@ ("7" :> 7) @@ ("8" :> 8) @@ ("9" :> 9)
DigitChar  == <<"0", "1", "2", "3", "4", "5", "6", "7", "8", "9">>

\* str.strip()
RECURSIVE LStrip(_)
LStrip(s) == IF s # <<>> /\ Head(s) \in Whitespace THEN LStrip(Tail(s)) ELSE s
RECURSIVE RStrip(_)
RStrip(s) ==
    IF s # <<>> /\ s[Len(s)] \in Whitespace THEN RStrip(SubSeq(s, 1, Len(s) - 1)) ELSE s
Strip(s) == RStrip(LStrip(s))

\* str.split(sep) for a one-character separator: always at least one piece.
RECURSIVE SplitFrom(_, _, _, _)
SplitFrom(s, sep, i, cur) ==
    IF i > Len(s) THEN <<cur>>
    ELSE IF s[i] = sep THEN <<cur>> \o SplitFrom(s, sep, i + 1, <<>>)
    ELSE SplitFrom(s, sep, i + 1, Append(cur, s[i]))
Split(s, sep) == SplitFrom(s, sep, 1, <<>>)

\* sep.join(parts)
RECURSIVE Join(_, _)
Join(sep, parts) ==
    IF parts = <<>> THEN <<>>
    ELSE IF Len(parts) = 1 THEN parts[1]
    ELSE parts[1] \o sep \o Join(sep, Tail(parts))

\* str(n) for an int
RECURSIVE NatChars(_)
NatChars(n) == IF n < 10 THEN <<DigitChar[n + 1]>> ELSE NatChars(n \div 10) \o <<DigitChar[(n % 10) + 1]>>
IntChars(n) == IF n < 0 THEN <<"-">> \o NatChars(0 - n) ELSE NatChars(n)

\* str(v) for the values a token iterable holds
PyStr(v) ==
    CASE v.t = "str"  -> v.s
      [] v.t = "int"  -> IntChars(v.n)
      [] v.t = "bool" -> IF v.n = 1 THEN <<"T", "r", "u", "e">> ELSE <<"F", "a", "l", "s", "e">>
      [] OTHER        -> <<"N", "o", "n", "e">>

(***************************************************************************)
(* json.loads / json.dumps, for the JSON grammar of objects, arrays,       *)
(* strings (escapes \" \\ \/ \n \t \r), integers and true/false/null.      *)
(* Fractions, exponents, \u escapes and NaN/Infinity are not in the        *)
(* alphabet of the inputs below.                                           *)
(***************************************************************************)
ParseFail == [ok |-> FALSE, v |-> PNone, i |-> 0]
ParseOk(v, i) == [ok |-> TRUE, v |-> v, i |-> i]

RECURSIVE SkipWs(_, _)
SkipWs(s, i) == IF i <= Len(s) /\ s[i] \in Whitespace THEN SkipWs(s, i + 1) ELSE i

StartsWith(s, i, lit) ==
    /\ i + Len(lit) - 1 <= Len(s)
    /\ SubSeq(s, i, i + Len(lit) - 1) = lit

Unescape(c) ==
    CASE c = "n" -> "\n"
      [] c = "t" -> "\t"
      [] c = "r" -> "\r"
      [] OTHER   -> c

\* the body of a JSON string, from the character after the opening quote
RECURSIVE ScanString(_, _, _)
ScanString(s, i, acc) ==
    IF i > Len(s) THEN ParseFail
    ELSE IF s[i] = "\"" THEN ParseOk(PStr(acc), i + 1)
    ELSE IF s[i] = "\\"
         THEN IF i + 1 <= Len(s) /\ s[i + 1] \in {"\"", "\\", "/", "n", "t", "r"}
              THEN ScanString(s, i + 2, Append(acc, Unescape(s[i + 1])))
              ELSE ParseFail
    ELSE IF s[i] \in {"\n", "\t", "\r"} THEN ParseFail
    ELSE ScanString(s, i + 1, Append(acc, s[i]))

RECURSIVE ScanDigits(_, _, _)
ScanDigits(s, i, acc) ==
    IF i <= Len(s) /\ s[i] \in Digits
    THEN ScanDigits(s, i + 1, acc * 10 + DigitVal[s[i]])
    ELSE [n |-> acc, i |-> i]

\* -?(0|[1-9][0-9]*)
NumberEnd(neg, r) == ParseOk(PInt(IF neg THEN 0 - r.n ELSE r.n), r.i)
NumberAt(s, neg, j) ==
    IF j > Len(s) \/ s[j] \notin Digits THEN ParseFail
    ELSE IF s[j] = "0" THEN ParseOk(PInt(0), j + 1)
    ELSE NumberEnd(neg, ScanDigits(s, j, 0))
ParseNumber(s, i) == IF s[i] = "-" THEN NumberAt(s, TRUE, i + 1) ELSE NumberAt(s, FALSE, i)

RECURSIVE ParseValue(_, _)
RECURSIVE ParseItems(_, _, _)
RECURSIVE ItemsSep(_, _, _)
RECURSIVE ItemsNext(_, _, _)
RECURSIVE ParseMembers(_, _, _)
RECURSIVE MembersKey(_, _, _)
RECURSIVE MembersColon(_, _, _, _)
RECURSIVE MembersValue(_, _, _, _)
RECURSIVE MembersSep(_, _, _)

\* array elements after "[" or after a ",": value, then "," or "]"
ItemsSep(s, acc, j) ==
    IF j > Len(s) THEN ParseFail
    ELSE IF s[j] = "]" THEN ParseOk(PList(acc), j + 1)
    ELSE IF s[j] = "," THEN ParseItems(s, j + 1, acc)
    ELSE ParseFail
ItemsNext(s, acc, r) ==
    IF ~r.ok THEN ParseFail ELSE ItemsSep(s, Append(acc, r.v), SkipWs(s, r.i))
ParseItems(s, i, acc) == ItemsNext(s, acc, ParseValue(s, SkipWs(s, i)))

\* object members after "{" or after a ",": "key" : value, then "," or "}";
\* a repeated key keeps its first position and takes the last value
MembersSep(s, kv, j) ==
    IF j > Len(s) THEN ParseFail
    ELSE IF s[j] = "}" THEN ParseOk(PDict(kv), j + 1)
    ELSE IF s[j] = "," THEN ParseMembers(s, j + 1, kv)
    ELSE ParseFail
MembersValue(s, acc, key, r) ==
    IF ~r.ok THEN ParseFail ELSE MembersSep(s, DictSet(acc, key, r.v), SkipWs(s, r.i))
MembersColon(s, acc, key, c) ==
    IF c > Len(s) \/ s[c] # ":" THEN ParseFail
    ELSE MembersValue(s, acc, key, ParseValue(s, SkipWs(s, c + 1)))
MembersKey(s, acc, k) ==
    IF ~k.ok THEN ParseFail ELSE MembersColon(s, acc, k.v.s, SkipWs(s, k.i))
ParseMembers(s, i, acc) ==
    IF SkipWs(s, i) > Len(s) \/ s[SkipWs(s, i)] # "\"" THEN ParseFail
    ELSE MembersKey(s, acc, ScanString(s, SkipWs(s, i) + 1, <<>>))

ParseValue(s, i) ==
    IF i > Len(s) THEN ParseFail
    ELSE IF s[i] = "\"" THEN ScanString(s, i + 1, <<>>)
    ELSE IF s[i] = "{"
         THEN IF SkipWs(s, i + 1) <= Len(s) /\ s[SkipWs(s, i + 1)] = "}"
              THEN ParseOk(PDict(<<>>), SkipWs(s, i + 1) + 1)
              ELSE ParseMembers(s, i + 1, <<>>)
    ELSE IF s[i] = "["
         THEN IF SkipWs(s, i + 1) <= Len(s) /\ s[SkipWs(s, i + 1)] = "]"
              THEN ParseOk(PList(<<>>), SkipWs(s, i + 1) + 1)
              ELSE ParseItems(s, i + 1, <<>>)
    ELSE IF StartsWith(s, i, <<"n", "u", "l", "l">>) THEN ParseOk(PNone, i + 4)
    ELSE IF StartsWith(s, i, <<"t", "r", "u", "e">>) THEN ParseOk(PBool(TRUE), i + 4)
    ELSE IF StartsWith(s, i, <<"f", "a", "l", "s", "e">>) THEN ParseOk(PBool(FALSE), i + 5)
    ELSE IF s[i] = "-" \/ s[i] \in Digits THEN ParseNumber(s, i)
    ELSE ParseFail

\* json.loads(s): ok = FALSE stands for json.JSONDecodeError (no value, or
\* extra data after it)
LoadsEnd(s, r) ==
    IF r.ok /\ SkipWs(s, r.i) = Len(s) + 1
    THEN [ok |-> TRUE, v |-> r.v]
    ELSE [ok |-> FALSE, v |-> PNone]
JsonLoads(s) == LoadsEnd(s, ParseValue(s, SkipWs(s, 1)))

RECURSIVE EscapeChars(_)
EscapeChars(s) ==
    IF s = <<>> THEN <<>>
    ELSE (CASE Head(s) = "\"" -> <<"\\", "\"">>
            [] Head(s) = "\\" -> <<"\\", "\\">>
            [] Head(s) = "\n" -> <<"\\", "n">>
            [] Head(s) = "\t" -> <<"\\", "t">>
            [] Head(s) = "\r" -> <<"\\", "r">>
            [] OTHER          -> <<Head(s)>>) \o EscapeChars(Tail(s))

Quoted(s) == <<"\"">> \o EscapeChars(s) \o <<"\"">>

\* json.dumps(v) with the default separators (", " and ": ")
RECURSIVE JsonDumps(_)
RECURSIVE DumpMembers(_)
RECURSIVE DumpItems(_)
DumpMembers(kv) ==
    IF kv = <<>> THEN <<>>
    ELSE Quoted(kv[1][1]) \o <<":", " ">> \o JsonDumps(kv[1][2])
         \o (IF Len(kv) > 1 THEN <<",", " ">> \o DumpMembers(Tail(kv)) ELSE <<>>)
DumpItems(xs) ==
    IF xs = <<>> THEN <<>>
    ELSE JsonDumps(xs[1])
         \o (IF Len(xs) > 1 THEN <<",", " ">> \o DumpItems(Tail(xs)) ELSE <<>>)
JsonDumps(v) ==
    CASE v.t = "str"  -> Quoted(v.s)
      [] v.t = "int"  -> IntChars(v.n)
      [] v.t = "bool" -> IF v.n = 1 THEN <<"t", "r", "u", "e">> ELSE <<"f", "a", "l", "s", "e">>
      [] v.t = "None" -> <<"n", "u", "l", "l">>
      [] v.t = "dict" -> <<"{">> \o DumpMembers(v.kv) \o <<"}">>
      [] v.t = "list" -> <<"[">> \o DumpItems(v.xs) \o <<"]">>

(***************************************************************************)
(* Event merge: events_to_dict, merge_events                               *)
(***************************************************************************)
\* to_dict(itr): keys are the stripped str() of the items, empty ones dropped,
\* every value "" (the `values` parameter is not used by the code).
AddToken(d, k) == IF k = <<>> THEN d ELSE DictSet(d, k, PStr(<<>>))
RECURSIVE to_dict(_)
to_dict(itr) ==
    IF itr = <<>> THEN <<>>
    ELSE AddToken(to_dict(SubSeq(itr, 1, Len(itr) - 1)), Strip(PyStr(itr[Len(itr)])))

StrItems(parts) == [i \in 1..Len(parts) |-> PStr(parts[i])]

EvOk(d)  == [ok |-> TRUE,  d |-> d,    err |-> "none"]
EvErr(e) == [ok |-> FALSE, d |-> <<>>, err |-> e]

\* the `match ev` of events_to_dict: the dict's pairs, or the ValueError of the
\* last case
MatchEvents(e) ==
    CASE e.t = "str"  -> EvOk(to_dict(StrItems(Split(e.s, ","))))
      [] e.t = "dict" -> EvOk(e.kv)
      [] e.t = "list" -> EvOk(to_dict(e.xs))
      [] e.t = "None" -> EvOk(<<>>)
      [] OTHER        -> EvErr("ValueError")

\* a str is replaced by its JSON value when json.loads accepts it
LoadedOr(ev, loaded) == IF loaded.ok THEN loaded.v ELSE ev

\* events_to_dict(ev)
events_to_dict(ev) ==
    IF ev.t = "str" THEN MatchEvents(LoadedOr(ev, JsonLoads(ev.s))) ELSE MatchEvents(ev)

MergeOk(s)  == [ok |-> TRUE,  s |-> s,    err |-> "none"]
MergeErr(e) == [ok |-> FALSE, s |-> <<>>, err |-> e]

AnyTruthy(kv) == \E i \in 1..Len(kv) : Truthy(kv[i][2])

\* the serialisation of merge_events: JSON when an event has a detail, else
\* the comma-joined names
DumpMerged(merged) ==
    IF AnyTruthy(merged)
    THEN MergeOk(JsonDumps(PDict(merged)))
    ELSE MergeOk(Join(<<",">>, Keys(merged)))

\* {**events_to_dict(events), **events_to_dict(new_events)}; an error of either
\* conversion propagates
MergeDicts(a, b) ==
    IF ~a.ok THEN MergeErr(a.err)
    ELSE IF ~b.ok THEN MergeErr(b.err)
    ELSE DumpMerged(DictUpdate(a.d, b.d))

\* merge_events(events, new_events): the merged header value
merge_events(events, new_events) ==
    MergeDicts(events_to_dict(events), events_to_dict(new_events))

(***************************************************************************)
(* Text constants of the source                                            *)
(***************************************************************************)
str_HX_Reselect == <<"H", "X", "-", "R", "e", "s", "e", "l", "e", "c", "t">>
str_HX_Trigger == <<"H", "X", "-", "T", "r", "i", "g", "g", "e", "r">>
str_After == <<"-", "A", "f", "t", "e", "r", "-">>
str_HX_Trigger_After_Settle == <<"H", "X", "-", "T", "r", "i", "g", "g", "e", "r", "-", "A", "f", "t", "e", "r", "-", "S", "e", "t", "t", "l", "e">>
str_HX_Trigger_After_Swap == <<"H", "X", "-", "T", "r", "i", "g", "g", "e", "r", "-", "A", "f", "t", "e", "r", "-", "S", "w", "a", "p">>
str_X_Trigger_After_Settle == <<"X", "-", "T", "r", "i", "g", "g", "e", "r", "-", "A", "f", "t", "e", "r", "-", "S", "e", "t", "t", "l", "e">>
str_X_Reselect == <<"X", "-", "R", "e", "s", "e", "l", "e", "c", "t">>
str_settle == <<"s", "e", "t", "t", "l", "e">>
str_swap == <<"s", "w", "a", "p">>
str_SWAP == <<"S", "W", "A", "P">>
str_foo == <<"f", "o", "o">>
str_bar == <<"b", "a", "r">>
str_main == <<"#", "m", "a", "i", "n">>
str_x == <<"#", "x">>

str_Cache_Control == <<"C", "a", "c", "h", "e", "-", "C", "o", "n", "t", "r", "o", "l">>
str_no_store == <<"n", "o", "-", "s", "t", "o", "r", "e", ",", " ", "m", "a", "x", "-", "a", "g", "e", "=", "0">>
str_HX_Reswap == <<"H", "X", "-", "R", "e", "s", "w", "a", "p">>
str_HX_Retarget == <<"H", "X", "-", "R", "e", "t", "a", "r", "g", "e", "t">>
str_reselect == <<"r", "e", "s", "e", "l", "e", "c", "t">>
str_retrigger == <<"r", "e", "t", "r", "i", "g", "g", "e", "r">>
str_reswap == <<"r", "e", "s", "w", "a", "p">>
str_retarget == <<"r", "e", "t", "a", "r", "g", "e", "t">>
str_select == <<"s", "e", "l", "e", "c", "t">>
str_after == <<"a", "f", "t", "e", "r">>
str_events == <<"e", "v", "e", "n", "t", "s">>
str_method == <<"m", "e", "t", "h", "o", "d">>
str_target == <<"t", "a", "r", "g", "e", "t">>
str_afterbegin == <<"a", "f", "t", "e", "r", "b", "e", "g", "i", "n">>
str_body == <<"b", "o", "d", "y">>
str_pollMsg == <<"p", "o", "l", "l", "M", "s", "g">>
str_nosuch == <<"n", "o", "s", "u", "c", "h">>
str_nomod == <<"n", "o", "m", "o", "d">>
str_nopkg_sub == <<"n", "o", "p", "k", "g", ".", "s", "u", "b">>
str_django_htmx == <<"d", "j", "a", "n", "g", "o", "_", "h", "t", "m", "x">>
str_django_htmx_http == <<"d", "j", "a", "n", "g", "o", "_", "h", "t", "m", "x", ".", "h", "t", "t", "p">>
str_module_name == <<"t", "e", "s", "t", "s", ".", "h", "t", "m", "x", "_", "c", "l", "o", "n", "e", ".", "m", "i", "d", "d", "l", "e", "w", "a", "r", "e">>
str_config_reselect == <<"{", "\"", "r", "e", "s", "e", "l", "e", "c", "t", "\"", ":", "\"", "#", "x", "\"", "}">>
str_tests == <<"t", "e", "s", "t", "s">>
str_tests_htmx_clone == <<"t", "e", "s", "t", "s", ".", "h", "t", "m", "x", "_", "c", "l", "o", "n", "e">>
str_config_invalid == <<"{", "r", "e", "s", "e", "l", "e", "c", "t">>
str_config_empty == <<"{", "}">>
str_config_retrigger == <<"{", "\"", "r", "e", "t", "r", "i", "g", "g", "e", "r", "\"", ":", " ", "{", "\"", "e", "v", "e", "n", "t", "s", "\"", ":", " ", "\"", "b", "a", "r", "\"", "}", "}">>

LowerLetters == <<"a", "b", "c", "d", "e", "f", "g", "h", "i", "j", "k", "l", "m",
                  "n", "o", "p", "q", "r", "s", "t", "u", "v", "w", "x", "y", "z">>
UpperLetters == <<"A", "B", "C", "D", "E", "F", "G", "H", "I", "J", "K", "L", "M",
                  "N", "O", "P", "Q", "R", "S", "T", "U", "V", "W", "X", "Y", "Z">>
Upper(c) == IF \E i \in 1..26 : LowerLetters[i] = c
            THEN UpperLetters[CHOOSE i \in 1..26 : LowerLetters[i] = c] ELSE c
Lower(c) == IF \E i \in 1..26 : UpperLetters[i] = c
            THEN LowerLetters[CHOOSE i \in 1..26 : UpperLetters[i] = c] ELSE c
\* str.capitalize(): first character upper-cased, the rest lower-cased
Capitalize(s) == [i \in 1..Len(s) |-> IF i = 1 THEN Upper(s[i]) ELSE Lower(s[i])]

(***************************************************************************)
(* HttpResponse: a status, the rendered content's kind and the headers,    *)
(* <<name, value>> pairs.  response[name] = value stores str(value).       *)
(***************************************************************************)
HttpResponse(status, content) == [status |-> status, content |-> content, headers |-> <<>>]
HasHeader(resp, name) == HasKey(resp.headers, name)
Header(resp, name)    == GetKey(resp.headers, name)
\* response.get(name): the value as a str, or None
GetHeader(resp, name) == IF HasHeader(resp, name) THEN PStr(Header(resp, name)) ELSE PNone
SetHeader(resp, name, value) == [resp EXCEPT !.headers = DictSet(@, name, value)]

CallOk(resp) == [ok |-> TRUE,  resp |-> resp, err |-> "none"]
CallErr(resp, e) == [ok |-> FALSE, resp |-> resp, err |-> e]

\* reselect(response, select)
reselect(resp, select) == SetHeader(resp, str_HX_Reselect, PyStr(select))

\* the header retrigger writes: f"HX-Trigger{f'-After-{after.capitalize()}' if after else ''}"
TriggerHeader(after) ==
    IF Truthy(after) THEN str_HX_Trigger \o str_After \o Capitalize(after.s) ELSE str_HX_Trigger

\* retrigger(response, after, events); a truthy `after` that is no str has no
\* capitalize() (AttributeError), an unexpected events type is merge_events' ValueError.
WriteMerged(resp, header, merged) ==
    IF merged.ok THEN CallOk(SetHeader(resp, header, merged.s)) ELSE CallErr(resp, merged.err)
RetriggerHeader_overwrite(resp, header, events) ==
    WriteMerged(resp, header, merge_events(PNone, events))
RetriggerHeader(resp, header, events) ==
    WriteMerged(resp, header, merge_events(GetHeader(resp, header), events))
retrigger(resp, after, events) ==
    IF Truthy(after) /\ after.t # "str" THEN CallErr(resp, "AttributeError")
    ELSE RetriggerHeader(resp, TriggerHeader(after), events)

(***************************************************************************)
(* Pending operations: modify_htmx_response, _request_configures_response  *)
(* The request is [hx_request, hx_boosted: the HX-Request / HX-Boosted     *)
(* headers; htmx, boosted: request.htmx and request.htmx.boosted once the  *)
(* htmx middleware has run; config: GET's `config` (a str or None);        *)
(* ftp: the functions_to_process attribute, set or not].                   *)
(* Every operations argument is a dict, as the interface documents.        *)
(***************************************************************************)
NoFtp == [set |-> FALSE, v |-> PNone]

\* variant: the attribute is replaced by htmx_funcs on every call
modify_htmx_response_replace(request, htmx_funcs) ==
    [request EXCEPT !.ftp = [set |-> TRUE, v |-> htmx_funcs]]

\* modify_htmx_response(request, htmx_funcs): update the attribute when it exists,
\* else store htmx_funcs; returns the request
modify_htmx_response(request, htmx_funcs) ==
    IF request.ftp.set
    THEN [request EXCEPT !.ftp = [set |-> TRUE, v |-> PDict(DictUpdate(@.v.kv, htmx_funcs.kv))]]
    ELSE [request EXCEPT !.ftp = [set |-> TRUE, v |-> htmx_funcs]]

\* queue_poll_messages(request)
PollMsgOps == PDict(<<<<str_retrigger, PDict(<<<<str_events, PStr(str_pollMsg)>>>>)>>>>)
queue_poll_messages(request) == modify_htmx_response(request, PollMsgOps)

\* json.loads(config) with JSONDecodeError and TypeError (config is None) caught
LoadConfig(config) ==
    IF config.t = "str" THEN LoadedOr(PNone, JsonLoads(config.s)) ELSE PNone

ConfigureWith(request, config) ==
    IF Truthy(config) THEN modify_htmx_response(request, config) ELSE request

\* _request_configures_response(request)
request_configures_response(request) == ConfigureWith(request, LoadConfig(request.config))

(***************************************************************************)
(* process_htmx_response: lookup by name, argument binding, dispatch       *)
(***************************************************************************)
RECURSIVE LastDot(_, _)
LastDot(s, i) == IF i = 0 THEN 0 ELSE IF s[i] = "." THEN i ELSE LastDot(s, i - 1)
HasDot(s) == LastDot(s, Len(s)) # 0
\* name.rsplit(".", 1)
BeforeLastDot(s) == SubSeq(s, 1, LastDot(s, Len(s)) - 1)
AfterLastDot(s)  == SubSeq(s, LastDot(s, Len(s)) + 1, Len(s))

\* module_name, func_name of one operation name; a bare name is looked up in
\* this module (__name__)
ModuleName(name) == IF HasDot(name) THEN BeforeLastDot(name) ELSE str_module_name
FuncName(name)   == IF HasDot(name) THEN AfterLastDot(name) ELSE name

\* The import system as the dispatch sees it: the modules that can be found, and
\* the packages whose submodules can be searched.
Packages == {str_django_htmx, str_tests, str_tests_htmx_clone}
\* importlib.util.find_spec(module_name): the module found, "None" when the name
\* is not found, "ModuleNotFoundError" when the parent of a dotted name cannot be
\* imported as a package
find_spec(module_name) ==
    IF module_name = str_module_name THEN "current"
    ELSE IF module_name = str_django_htmx_http THEN "django_htmx.http"
    ELSE IF module_name \in Packages THEN "package"
    ELSE IF HasDot(module_name) /\ BeforeLastDot(module_name) \notin Packages
         THEN "ModuleNotFoundError"
    ELSE "None"

\* `module = ... if spec else sys.modules[__name__]`
ResolvedModule(spec) == IF spec = "None" THEN "current" ELSE spec

\* hasattr(module, func_name), for the response mutators: this module defines
\* reselect and retrigger and imports reswap and retarget from django_htmx.http
hasattr(module, func_name) ==
    CASE module = "current"          -> func_name \in {str_reselect, str_retrigger, str_reswap, str_retarget}
      [] module = "django_htmx.http" -> func_name \in {str_reswap, str_retarget}
      [] OTHER                       -> FALSE

\* the parameters after `response` and how many of them have no default
Params(func_name) ==
    CASE func_name = str_reselect  -> <<str_select>>
      [] func_name = str_retrigger -> <<str_after, str_events>>
      [] func_name = str_reswap    -> <<str_method>>
      [] OTHER                     -> <<str_target>>
Required(func_name) == IF func_name = str_retrigger THEN 0 ELSE 1

BindOk(vals) == [ok |-> TRUE, vals |-> vals]
BindErr      == [ok |-> FALSE, vals |-> <<>>]

\* func(response, **args)
BindKwargs(params, required, kv) ==
    IF /\ \A i \in 1..Len(kv) : \E j \in 1..Len(params) : params[j] = kv[i][1]
       /\ \A j \in 1..required : HasKey(kv, params[j])
    THEN BindOk([j \in 1..Len(params) |-> IF HasKey(kv, params[j]) THEN GetKey(kv, params[j]) ELSE PNone])
    ELSE BindErr
\* func(response, *args)
BindPositional(params, required, xs) ==
    IF Len(xs) <= Len(params) /\ Len(xs) >= required
    THEN BindOk([j \in 1..Len(params) |-> IF j <= Len(xs) THEN xs[j] ELSE PNone])
    ELSE BindErr
\* the three argument shapes of the dispatch; BindErr is Python's TypeError
BindArgs(func_name, args) ==
    CASE args.t = "dict" -> BindKwargs(Params(func_name), Required(func_name), args.kv)
      [] args.t = "list" -> BindPositional(Params(func_name), Required(func_name), args.xs)
      [] OTHER           -> BindPositional(Params(func_name), Required(func_name), <<args>>)

\* django_htmx.http.reswap / retarget
reswap(resp, method)   == SetHeader(resp, str_HX_Reswap, PyStr(method))
retarget(resp, target) == SetHeader(resp, str_HX_Retarget, PyStr(target))

\* the call of the function found
Invoke(func_name, resp, vals) ==
    CASE func_name = str_reselect  -> CallOk(reselect(resp, vals[1]))
      [] func_name = str_retrigger -> retrigger(resp, vals[1], vals[2])
      [] func_name = str_reswap    -> CallOk(reswap(resp, vals[1]))
      [] OTHER                     -> CallOk(retarget(resp, vals[1]))

\* The outcome of a dispatch: whether it ran and returned, the response, the
\* error raised with the names its message carries, and the operations whose
\* function was invoked, in order.
Dispatched(resp, invoked) ==
    [ran |-> TRUE, ok |-> TRUE, resp |-> resp, err |-> "none", func |-> <<>>,
     module |-> <<>>, invoked |-> invoked]
DispatchErr(resp, err, func, module, invoked) ==
    [ran |-> TRUE, ok |-> FALSE, resp |-> resp, err |-> err, func |-> func,
     module |-> module, invoked |-> invoked]
NotDispatched(resp) ==
    [ran |-> FALSE, ok |-> TRUE, resp |-> resp, err |-> "none", func |-> <<>>,
     module |-> <<>>, invoked |-> <<>>]

RECURSIVE ProcessFrom(_, _, _, _)
\* after the call of operation i: its return value is the response of the rest
AfterCall(kv, i, invoked, r) ==
    IF r.ok THEN ProcessFrom(r.resp, kv, i + 1, invoked)
    ELSE DispatchErr(r.resp, r.err, <<>>, <<>>, invoked)
\* variant: the function's return value is dropped, the next operation gets
\* the response this one was given
CallBound_discard(resp, kv, i, invoked, bound) ==
    IF bound.ok
    THEN AfterCall(kv, i, Append(invoked, kv[i][1]), CallOk(resp))
    ELSE DispatchErr(resp, "TypeError", <<>>, <<>>, invoked)
CallBound(resp, kv, i, invoked, bound) ==
    IF bound.ok
    THEN AfterCall(kv, i, Append(invoked, kv[i][1]), Invoke(FuncName(kv[i][1]), resp, bound.vals))
    ELSE DispatchErr(resp, "TypeError", <<>>, <<>>, invoked)
\* variant: a function that is not found is skipped
LookupIn_skip(resp, kv, i, invoked, module) ==
    IF hasattr(module, FuncName(kv[i][1]))
    THEN CallBound(resp, kv, i, invoked, BindArgs(FuncName(kv[i][1]), kv[i][2]))
    ELSE ProcessFrom(resp, kv, i + 1, invoked)
\* `if hasattr(module, func_name): ... continue`, else the AttributeError
LookupIn(resp, kv, i, invoked, module) ==
    IF hasattr(module, FuncName(kv[i][1]))
    THEN CallBound(resp, kv, i, invoked, BindArgs(FuncName(kv[i][1]), kv[i][2]))
    ELSE DispatchErr(resp, "AttributeError", FuncName(kv[i][1]), ModuleName(kv[i][1]), invoked)
ProcessOne(resp, kv, i, invoked, spec) ==
    IF spec = "ModuleNotFoundError"
    THEN DispatchErr(resp, "ModuleNotFoundError", <<>>, <<>>, invoked)
    ELSE LookupIn(resp, kv, i, invoked, ResolvedModule(spec))
ProcessFrom(resp, kv, i, invoked) ==
    IF i > Len(kv) THEN Dispatched(resp, invoked)
    ELSE ProcessOne(resp, kv, i, invoked, find_spec(ModuleName(kv[i][1])))

\* process_htmx_response(response, functions_to_process)
process_htmx_response(resp, functions_to_process) ==
    ProcessFrom(resp, functions_to_process.kv, 1, <<>>)

(***************************************************************************)
(* msg_return and the two middlewares                                      *)
(***************************************************************************)
\* msg_return(request, msg, status, style, target, processors): the request with
\* {"reswap": "afterbegin"} updated by processors registered on it, and the
\* rendered inline message
MsgProcessors(processors) ==
    PDict(DictUpdate(<<<<str_reswap, PStr(str_afterbegin)>>>>, processors.kv))
msg_return(request, status, processors) ==
    [request |-> modify_htmx_response(request, MsgProcessors(processors)),
     resp    |-> HttpResponse(status, "inline_msg")]

\* variant: also substitutes for boosted requests
process_exception_boosted(request, exception) ==
    IF exception = "Http404" /\ request.htmx
    THEN [returned |-> "response", r |-> msg_return(request, 404, PDict(<<>>))]
    ELSE [returned |-> "None", r |-> [request |-> request, resp |-> HttpResponse(0, "none")]]

\* Htmx404Middleware.process_exception(request, exception): the substitute
\* response, or None
process_exception(request, exception) ==
    IF exception = "Http404" /\ request.htmx /\ ~request.boosted
    THEN [returned |-> "response", r |-> msg_return(request, 404, PDict(<<>>))]
    ELSE [returned |-> "None", r |-> [request |-> request, resp |-> HttpResponse(0, "none")]]

\* HtmxResponseMiddleware.__call__, after super().__call__ returned the response
DispatchPending(request, resp) ==
    IF request.ftp.set /\ Truthy(request.ftp.v)
    THEN process_htmx_response(resp, request.ftp.v)
    ELSE NotDispatched(resp)
\* variant: without the `if request.htmx` test
HtmxResponseMiddleware_call_any(request, resp) ==
    DispatchPending(request, SetHeader(resp, str_Cache_Control, str_no_store))
HtmxResponseMiddleware_call(request, resp) ==
    IF request.htmx
    THEN DispatchPending(request, SetHeader(resp, str_Cache_Control, str_no_store))
    ELSE NotDispatched(resp)

(***************************************************************************)
(* DynamicHXChoiceField.  The field is [dynamic: the htmx widget was       *)
(* installed; has_allow: the attribute allow_new_choices exists;           *)
(* allow_new_choices; choices: <<value, label>> pairs; required].          *)
(***************************************************************************)
\* is_not_none(value): neither "" nor None
is_not_none(value) == ~(value.t = "str" /\ value.s = <<>>) /\ value.t # "None"

\* DynamicHXChoiceField(allow_new_choices=..., choice_url=..., choices=...,
\* required=...): the attribute and the widget are set only with a choice URL
DynamicHXChoiceField(allow_new_choices, choice_url, choices, required) ==
    [dynamic           |-> is_not_none(choice_url),
     has_allow         |-> is_not_none(choice_url),
     allow_new_choices |-> is_not_none(choice_url) /\ allow_new_choices,
     choices           |-> choices,
     required          |-> required]

\* ChoiceField.valid_value(value), for flat choices with str values
valid_value(choices, value) == HasKey(choices, value)

\* forms.ChoiceField.validate(value): Field.validate's required check, then
\* the choice check for a non-empty value
ChoiceField_validate(field, value) ==
    IF value = <<>> /\ field.required THEN "ValidationError"
    ELSE IF value # <<>> /\ ~valid_value(field.choices, value) THEN "ValidationError"
    ELSE "ok"

\* `if self.allow_new_choices and value not in dict(self.choices):
\*      self.choices = list(self.choices) + [(value, value)]`
AdmitChoice(field, value) ==
    IF field.allow_new_choices /\ ~HasKey(field.choices, value)
    THEN [field EXCEPT !.choices = Append(@, <<value, value>>)]
    ELSE field

Validated(field, value) == [field |-> field, outcome |-> ChoiceField_validate(field, value)]

\* DynamicHXChoiceField.validate(value): the field afterwards and "ok" or the
\* error raised; reading self.allow_new_choices fails when __init__ did not set it
validate(field, value) ==
    IF ~field.has_allow THEN [field |-> field, outcome |-> "AttributeError"]
    ELSE Validated(AdmitChoice(field, value), value)

(***************************************************************************)
(* Bounds and input sets                                                   *)
(***************************************************************************)
\* tokens / keys of one merge input
MaxTokens == 2
\* direct mutator calls on one response
MaxCalls == 3

Tokens  == {<<"a">>, <<" ", "b">>, <<"1">>}
MapKeys == {<<"a">>, <<"b">>}
Details == {<<>>, <<"x">>}

TokenSeqs == UNION {[1..k -> Tokens] : k \in 0..MaxTokens}
DistinctKeys(f) == \A i, j \in DOMAIN f : i # j => f[i][1] # f[j][1]
EventMaps ==
    {[i \in DOMAIN f |-> <<f[i][1], PStr(f[i][2])>>] :
        f \in {g \in UNION {[1..k -> MapKeys \X Details] : k \in 0..MaxTokens} : DistinctKeys(g)}}

\* MergeInput: None, comma-separated strings, token iterables, mappings and
\* JSON-object strings
MergeInputs ==
    {PNone}
    \cup {PStr(Join(<<",">>, ts)) : ts \in TokenSeqs}
    \cup {PList(StrItems(ts)) : ts \in TokenSeqs}
    \cup {PDict(kv) : kv \in EventMaps}
    \cup {PStr(JsonDumps(PDict(kv))) : kv \in EventMaps}

Afters == {PNone, PStr(str_settle), PStr(str_swap), PStr(str_SWAP)}
RetriggerEvents ==
    {PNone, PStr(str_foo), PStr(str_bar), PStr(<<"1">>),
     PList(<<PStr(str_bar)>>), PDict(<<<<str_foo, PStr(<<"x">>)>>>>)}
Selectors == {PStr(str_main), PStr(str_x)}

\* registrations one view makes
MaxViewCalls == 2

Op(name, args) == <<name, args>>
Dotted(module, func) == module \o <<".">> \o func
\* the operations view code registers
ViewOps ==
    {PDict(<<Op(str_reselect, PStr(str_main))>>),
     PDict(<<Op(str_retrigger, PDict(<<<<str_after, PStr(str_settle)>>, <<str_events, PStr(str_foo)>>>>))>>),
     PDict(<<Op(str_nosuch, PStr(str_x)), Op(str_reselect, PStr(str_x))>>),
     PDict(<<Op(Dotted(str_nomod, str_reselect), PStr(str_x))>>),
     PDict(<<Op(str_retrigger, PList(<<>>)), Op(Dotted(str_nomod, str_nosuch), PList(<<>>))>>),
     PDict(<<Op(Dotted(str_nopkg_sub, str_reselect), PStr(str_x))>>),
     PDict(<<Op(Dotted(str_django_htmx_http, str_retarget), PList(<<PStr(str_body)>>))>>),
     PDict(<<Op(str_reselect, PList(<<PStr(str_x), PStr(str_main)>>))>>)}
\* GET's config: absent, JSON objects, malformed JSON
Configs ==
    {PNone, PStr(str_config_reselect), PStr(str_config_retrigger), PStr(str_config_empty),
     PStr(str_config_invalid)}
\* what a view returns: a plain response, or one on which it has set a trigger
ViewResponses ==
    {HttpResponse(200, "view"),
     SetHeader(HttpResponse(200, "view"), str_HX_Trigger, str_foo)}
MsgProcessorsArgs == {PDict(<<>>), PDict(<<Op(str_reswap, PStr(str_body))>>)}
Exceptions == {"Http404", "Other"}

\* validate calls on one field
MaxValidations == 2

str_choices_url == <<"/", "c">>
ChoiceUrls   == {PNone, PStr(<<>>), PStr(str_choices_url)}
ChoiceValues == {<<>>, <<"a">>, <<"b">>}
ChoiceLists  == {<<>>, <<<<<<"a">>, <<"a">>>>>>}

(***************************************************************************)
(* State                                                                   *)
(***************************************************************************)
VARIABLES
    evA, evB,       \* the merge inputs of the event-merge specification
    evRes,          \* the last application of events_to_dict / merge_events
    response,       \* the HttpResponse being built / returned
    call,           \* the last direct mutator call on the response
    ncalls,         \* direct mutator calls made so far
    pc,             \* where the request is: request, view, exception, unhandled,
                    \* response, done, error
    request,        \* the HttpRequest
    nreg,           \* registrations made by view code on this request
    exc,            \* the exception the view raised
    handled,        \* what process_exception did
    orig,           \* the response handed to HtmxResponseMiddleware
    dispatch,       \* what HtmxResponseMiddleware did with it
    field,          \* the DynamicHXChoiceField and how it was constructed
    validation,     \* the last validate call on it
    nvalid,         \* validate calls made so far
    registered      \* the operations passed to modify_htmx_response, in call order

vars == <<evA, evB, evRes, response, call, ncalls, pc, request, nreg, exc, handled,
          orig, dispatch, field, validation, nvalid, registered>>
fieldVars    == <<field, validation, nvalid>>
mergeVars    == <<evA, evB, evRes>>
mutatorVars  == <<call, ncalls>>
pipelineVars == <<pc, request, nreg, exc, handled, orig, dispatch, registered>>

NoRes == [fn |-> "none", ok |-> TRUE, d |-> <<>>, s |-> <<>>, err |-> "none"]
NoCall == [fn |-> "none", ok |-> TRUE, err |-> "none", after |-> PNone, arg |-> PNone,
           pre |-> HttpResponse(200, "view")]
NoHandled == [ran |-> FALSE, returned |-> "none", pre |-> NoFtp]
NewRequest(hx_request, hx_boosted, config) ==
    [hx_request |-> hx_request, hx_boosted |-> hx_boosted, htmx |-> FALSE,
     boosted |-> FALSE, config |-> config, ftp |-> NoFtp]

MergeIdle    == evA = PNone /\ evB = PNone /\ evRes = NoRes
MutatorIdle  == call = NoCall /\ ncalls = 0
PipelineIdle ==
    /\ pc = "idle" /\ request = NewRequest(FALSE, FALSE, PNone) /\ nreg = 0
    /\ registered = <<>>
    /\ exc = "none" /\ handled = NoHandled
    /\ orig = HttpResponse(200, "view")
    /\ dispatch = NotDispatched(HttpResponse(200, "view"))
NoResponse   == HttpResponse(0, "none")
NoValidation == [ran |-> FALSE, value |-> <<>>, outcome |-> "none", pre |-> <<>>]
NewField(allow, url, choices, required) ==
    [allow_arg |-> allow, url |-> url, f |-> DynamicHXChoiceField(allow, url, choices, required)]
FieldIdle ==
    /\ field = NewField(TRUE, PNone, <<>>, TRUE)
    /\ validation = NoValidation
    /\ nvalid = 0

(***************************************************************************)
(* Specification SpecMerge: the pure event-merge functions applied to      *)
(* every pair of merge inputs                                              *)
(***************************************************************************)
MergeInit ==
    /\ evA \in MergeInputs
    /\ evB \in MergeInputs
    /\ evRes = NoRes
    /\ response = HttpResponse(200, "view")
    /\ MutatorIdle
    /\ PipelineIdle
    /\ FieldIdle

ApplyEventsToDict ==
    /\ evRes.fn = "none"
    /\ \E r \in {events_to_dict(evA)} :
           evRes' = [fn |-> "events_to_dict", ok |-> r.ok, d |-> r.d, s |-> <<>>, err |-> r.err]
    /\ UNCHANGED <<evA, evB, response, mutatorVars, pipelineVars, fieldVars>>

ApplyMergeEvents ==
    /\ evRes.fn = "none"
    /\ \E r \in {merge_events(evA, evB)} :
           evRes' = [fn |-> "merge_events", ok |-> r.ok, d |-> <<>>, s |-> r.s, err |-> r.err]
    /\ UNCHANGED <<evA, evB, response, mutatorVars, pipelineVars, fieldVars>>

MergeNext == ApplyEventsToDict \/ ApplyMergeEvents
SpecMerge == MergeInit /\ [][MergeNext]_vars

(***************************************************************************)
(* Specification SpecResponse: view code calling the mutators directly on  *)
(* one response                                                            *)
(***************************************************************************)
ResponseInit ==
    /\ response = HttpResponse(200, "view")
    /\ MergeIdle /\ MutatorIdle /\ PipelineIdle /\ FieldIdle

CallRetrigger ==
    /\ ncalls < MaxCalls
    /\ \E after \in Afters, events \in RetriggerEvents :
          \E r \in {retrigger(response, after, events)} :
              /\ response' = r.resp
              /\ call' = [fn |-> "retrigger", ok |-> r.ok, err |-> r.err, after |-> after,
                          arg |-> events, pre |-> response]
    /\ ncalls' = ncalls + 1
    /\ UNCHANGED <<mergeVars, pipelineVars, fieldVars>>

CallReselect ==
    /\ ncalls < MaxCalls
    /\ \E select \in Selectors :
          /\ response' = reselect(response, select)
          /\ call' = [fn |-> "reselect", ok |-> TRUE, err |-> "none", after |-> PNone,
                      arg |-> select, pre |-> response]
    /\ ncalls' = ncalls + 1
    /\ UNCHANGED <<mergeVars, pipelineVars, fieldVars>>

ResponseNext == CallRetrigger \/ CallReselect
SpecResponse == ResponseInit /\ [][ResponseNext]_vars

(***************************************************************************)
(* Specification Spec: one request through HtmxResponseMiddleware, a view  *)
(* and Htmx404Middleware                                                   *)
(***************************************************************************)
Init ==
    /\ pc = "request"
    /\ request \in {NewRequest(h, b, c) : h \in BOOLEAN, b \in BOOLEAN, c \in Configs}
    /\ nreg = 0
    /\ registered = <<>>
    /\ exc = "none"
    /\ handled = NoHandled
    /\ response = NoResponse
    /\ orig = NoResponse
    /\ dispatch = NotDispatched(NoResponse)
    /\ MergeIdle /\ MutatorIdle /\ FieldIdle

\* HtmxResponseMiddleware.__call__ up to super().__call__(request): the htmx
\* middleware attaches request.htmx and calls the view
MiddlewareCall ==
    /\ pc = "request"
    /\ request' = [request EXCEPT !.htmx = request.hx_request,
                                  !.boosted = request.hx_boosted]
    /\ pc' = "view"
    /\ UNCHANGED <<fieldVars, mergeVars, mutatorVars, registered, response, nreg, exc, handled, orig, dispatch>>

\* the view registers operations
ViewModify ==
    /\ pc = "view" /\ nreg < MaxViewCalls
    /\ \E ops \in ViewOps :
          /\ request' = modify_htmx_response(request, ops)
          /\ registered' = Append(registered, ops)
    /\ nreg' = nreg + 1
    /\ UNCHANGED <<fieldVars, mergeVars, mutatorVars, response, pc, exc, handled, orig, dispatch>>

ViewQueuePoll ==
    /\ pc = "view" /\ nreg < MaxViewCalls
    /\ request' = queue_poll_messages(request)
    /\ registered' = Append(registered, PollMsgOps)
    /\ nreg' = nreg + 1
    /\ UNCHANGED <<fieldVars, mergeVars, mutatorVars, response, pc, exc, handled, orig, dispatch>>

\* the view lets the request configure its response
ViewConfigures ==
    /\ pc = "view" /\ nreg < MaxViewCalls
    /\ request' = request_configures_response(request)
    /\ registered' = IF Truthy(LoadConfig(request.config))
                     THEN Append(registered, LoadConfig(request.config))
                     ELSE registered
    /\ nreg' = nreg + 1
    /\ UNCHANGED <<fieldVars, mergeVars, mutatorVars, response, pc, exc, handled, orig, dispatch>>

ViewReturn ==
    /\ pc = "view"
    /\ response' \in ViewResponses
    /\ pc' = "response"
    /\ UNCHANGED <<fieldVars, mergeVars, mutatorVars, registered, request, nreg, exc, handled, orig, dispatch>>

\* the view returns msg_return(request, ...)
ViewMsgReturn ==
    /\ pc = "view"
    /\ \E processors \in MsgProcessorsArgs :
       \E r \in {msg_return(request, 200, processors)} :
          /\ request' = r.request
          /\ response' = r.resp
          /\ registered' = Append(registered, MsgProcessors(processors))
    /\ nreg' = nreg + 1
    /\ pc' = "response"
    /\ UNCHANGED <<fieldVars, mergeVars, mutatorVars, exc, handled, orig, dispatch>>

ViewRaise ==
    /\ pc = "view"
    /\ exc' \in Exceptions
    /\ pc' = "exception"
    /\ UNCHANGED <<fieldVars, mergeVars, mutatorVars, registered, response, request, nreg, handled, orig, dispatch>>

\* Htmx404Middleware.process_exception
ProcessException ==
    /\ pc = "exception"
    /\ \E h \in {process_exception(request, exc)} :
          /\ handled' = [ran |-> TRUE, returned |-> h.returned, pre |-> request.ftp]
          /\ request' = h.r.request
          /\ registered' = IF h.returned = "response"
                           THEN Append(registered, MsgProcessors(PDict(<<>>)))
                           ELSE registered
          /\ response' = IF h.returned = "response" THEN h.r.resp ELSE response
          /\ pc' = IF h.returned = "response" THEN "response" ELSE "unhandled"
    /\ UNCHANGED <<fieldVars, mergeVars, mutatorVars, nreg, exc, orig, dispatch>>

\* process_exception returned None: Django turns the exception into its own
\* error response
DjangoHandlesException ==
    /\ pc = "unhandled"
    /\ response' = HttpResponse(IF exc = "Http404" THEN 404 ELSE 500, "error_page")
    /\ pc' = "response"
    /\ UNCHANGED <<fieldVars, mergeVars, mutatorVars, registered, request, nreg, exc, handled, orig, dispatch>>

\* HtmxResponseMiddleware.__call__ from the return of super().__call__ on
MiddlewareReturn ==
    /\ pc = "response"
    /\ \E d \in {HtmxResponseMiddleware_call(request, response)} :
          /\ dispatch' = d
          /\ response' = d.resp
          /\ pc' = IF d.ok THEN "done" ELSE "error"
    /\ orig' = response
    /\ UNCHANGED <<fieldVars, mergeVars, mutatorVars, registered, request, nreg, exc, handled>>

Next ==
    \/ MiddlewareCall
    \/ ViewModify
    \/ ViewQueuePoll
    \/ ViewConfigures
    \/ ViewReturn
    \/ ViewMsgReturn
    \/ ViewRaise
    \/ ProcessException
    \/ DjangoHandlesException
    \/ MiddlewareReturn

Spec == Init /\ [][Next]_vars

(***************************************************************************)
(* Specification SpecField: a DynamicHXChoiceField is constructed and      *)
(* validates submitted values                                              *)
(***************************************************************************)
FieldInit ==
    /\ field \in {NewField(allow, url, choices, required) :
                     allow \in BOOLEAN, url \in ChoiceUrls, choices \in ChoiceLists,
                     required \in BOOLEAN}
    /\ validation = NoValidation
    /\ nvalid = 0
    /\ response = HttpResponse(200, "view")
    /\ MergeIdle /\ MutatorIdle /\ PipelineIdle

Validate ==
    /\ nvalid < MaxValidations
    /\ \E value \in ChoiceValues :
       \E r \in {validate(field.f, value)} :
          /\ field' = [field EXCEPT !.f = r.field]
          /\ validation' = [ran |-> TRUE, value |-> value, outcome |-> r.outcome,
                            pre |-> field.f.choices]
    /\ nvalid' = nvalid + 1
    /\ UNCHANGED <<mergeVars, mutatorVars, pipelineVars, response>>

FieldNext == Validate
SpecField == FieldInit /\ [][FieldNext]_vars

(***************************************************************************)
(* Claims about retrigger (specification SpecResponse)                     *)
(***************************************************************************)
\* the header each documented value of `after` selects
C3_ExpectedHeader(after) ==
    CASE after = PNone            -> str_HX_Trigger
      [] after = PStr(str_settle) -> str_HX_Trigger_After_Settle
      [] OTHER                    -> str_HX_Trigger_After_Swap

C3_foo_bar == <<"f", "o", "o", ",", "b", "a", "r">>

\* C3 as the spec states it: retrigger(response, after="settle", events="foo") on a
\* response without the header sets the header named X-Trigger-After-Settle to
\* "foo".
C3_Original ==
    (/\ call.fn = "retrigger" /\ call.ok
     /\ call.after = PStr(str_settle) /\ call.arg = PStr(str_foo)
     /\ ~HasHeader(call.pre, str_X_Trigger_After_Settle))
    => /\ HasHeader(response, str_X_Trigger_After_Settle)
       /\ Header(response, str_X_Trigger_After_Settle) = str_foo

\* C3 (amended): a retrigger call that returns leaves, in the header chosen by
\* `after` (HX-Trigger, HX-Trigger-After-Settle, HX-Trigger-After-Swap), the value
\* merge_events(value of that header before the call, events) and leaves every
\* other header as it was; after="settle", events="foo" on a response without
\* HX-Trigger-After-Settle gives "foo", and a following events="bar" gives
\* "foo,bar".
C3_RetriggerAccumulates ==
    (call.fn = "retrigger" /\ call.ok) =>
        \E h \in {C3_ExpectedHeader(call.after)} :
            /\ HasHeader(response, h)
            /\ \E m \in {merge_events(GetHeader(call.pre, h), call.arg)} :
                  m.ok /\ Header(response, h) = m.s
            /\ \A i \in 1..Len(call.pre.headers) :
                  call.pre.headers[i][1] # h =>
                      /\ HasHeader(response, call.pre.headers[i][1])
                      /\ Header(response, call.pre.headers[i][1]) = call.pre.headers[i][2]
            /\ Len(response.headers) = Len(call.pre.headers) + (IF HasHeader(call.pre, h) THEN 0 ELSE 1)
            /\ (call.after = PStr(str_settle) /\ call.arg = PStr(str_foo)
                    /\ ~HasHeader(call.pre, h))
               => Header(response, h) = str_foo
            /\ (call.after = PStr(str_settle) /\ call.arg = PStr(str_bar)
                    /\ GetHeader(call.pre, h) = PStr(str_foo))
               => Header(response, h) = C3_foo_bar

\* C3 witness: the second call of the example, "bar" merged into "foo"
C3_Witness ==
    /\ call.fn = "retrigger" /\ call.ok
    /\ call.after = PStr(str_settle) /\ call.arg = PStr(str_bar)
    /\ GetHeader(call.pre, str_HX_Trigger_After_Settle) = PStr(str_foo)
    /\ GetHeader(response, str_HX_Trigger_After_Settle) = PStr(C3_foo_bar)

(***************************************************************************)
(* Claims about events_to_dict and merge_events (specification SpecMerge)  *)
(***************************************************************************)
C_SameMapping(d, e) ==
    /\ KeySet(d) = KeySet(e)
    /\ \A k \in KeySet(d) : GetKey(d, k) = GetKey(e, k)

\* C4: when merge_events(A, B) returns, parsing its result back with
\* events_to_dict raises no error and gives the right-biased dict-merge of
\* events_to_dict(A) and events_to_dict(B).
C4_MergeRoundTrips ==
    (evRes.fn = "merge_events" /\ evRes.ok) =>
        \E back \in {events_to_dict(PStr(evRes.s))} :
            /\ back.ok
            /\ C_SameMapping(back.d, DictUpdate(events_to_dict(evA).d, events_to_dict(evB).d))

\* C5: the event names of merge_events(A, B) are the union of the names of A
\* and of B, and a name present in both carries B's detail.
C5_MergeRightBiased ==
    (evRes.fn = "merge_events" /\ evRes.ok) =>
        \E back \in {events_to_dict(PStr(evRes.s))},
           a \in {events_to_dict(evA)}, b \in {events_to_dict(evB)} :
            /\ back.ok
            /\ KeySet(back.d) = KeySet(a.d) \cup KeySet(b.d)
            /\ \A k \in KeySet(a.d) \cap KeySet(b.d) : GetKey(back.d, k) = GetKey(b.d, k)

C6_ObjectForm(ev) == ev.t = "dict" \/ (ev.t = "str" /\ ev.s # <<>> /\ ev.s[1] = "{")
C6_ObjectPairs(ev) == IF ev.t = "dict" THEN ev.kv ELSE JsonLoads(ev.s).v.kv

\* C6: for every merge input events_to_dict returns a mapping whose keys are
\* trimmed and non-empty, whose values are the object's values for the object
\* forms and "" for every other form, and which is empty for None.
C6_EventsToDictNormalises ==
    evRes.fn = "events_to_dict" =>
        /\ evRes.ok
        /\ \A k \in KeySet(evRes.d) : k # <<>> /\ Strip(k) = k
        /\ C6_ObjectForm(evA) => C_SameMapping(evRes.d, C6_ObjectPairs(evA))
        /\ ~C6_ObjectForm(evA) => \A k \in KeySet(evRes.d) : GetKey(evRes.d, k) = PStr(<<>>)
        /\ evA = PNone => evRes.d = <<>>

(***************************************************************************)
(* Claims about the request pipeline (specification Spec)                  *)
(***************************************************************************)
C_HeaderIs(resp, name, value) == HasHeader(resp, name) /\ Header(resp, name) = value
C_Pending == request.ftp.set /\ Truthy(request.ftp.v)

\* C1: an HTMX request whose GET query carries config={"reselect":"#x"}, to a
\* view that registers nothing itself, gets a response whose reselect header is
\* "#x" (under the spec's name X-Reselect or the name HX-Reselect).
C1_ConfigReachesHeader ==
    (pc = "done" /\ request.htmx /\ request.config = PStr(str_config_reselect) /\ nreg = 0)
        => \/ C_HeaderIs(response, str_X_Reselect, str_x)
           \/ C_HeaderIs(response, str_HX_Reselect, str_x)

\* C2: once the middleware has returned, an HTMX request's response carries
\* Cache-Control "no-store, max-age=0" and every pending operation has been
\* dispatched against it, in order; a non-HTMX request's response is the one the
\* inner handler returned, with nothing dispatched, whatever was registered.
\* Dispatch that fails happens only for an HTMX request with pending operations.
C2_MiddlewareOnlyForHtmx ==
    /\ (pc = "done" /\ request.htmx) =>
          /\ C_HeaderIs(response, str_Cache_Control, str_no_store)
          /\ C_Pending =>
                /\ dispatch.ran
                /\ dispatch.invoked = Keys(request.ftp.v.kv)
                /\ response = process_htmx_response(
                                  SetHeader(orig, str_Cache_Control, str_no_store),
                                  request.ftp.v).resp
          /\ ~C_Pending =>
                /\ ~dispatch.ran
                /\ response = SetHeader(orig, str_Cache_Control, str_no_store)
    /\ (pc = "done" /\ ~request.htmx) =>
          /\ response = orig
          /\ ~dispatch.ran
          /\ dispatch.invoked = <<>>
    /\ pc = "error" => request.htmx /\ C_Pending /\ dispatch.ran

\* an HTMX request done with two pending operations dispatched
C2_Witness ==
    /\ pc = "done" /\ request.htmx
    /\ Len(dispatch.invoked) = 2
    /\ orig # response
    /\ C_HeaderIs(response, str_HX_Reselect, str_main)

C9_Ops == request.ftp.v.kv
C9_Name(i) == C9_Ops[i][1]
\* the operations before operation i were all applied
C9_Reached(i) ==
    process_htmx_response(SetHeader(orig, str_Cache_Control, str_no_store),
                          PDict(SubSeq(C9_Ops, 1, i - 1))).ok
C9_Unresolved(i) == find_spec(ModuleName(C9_Name(i))) \in {"None", "ModuleNotFoundError"}
C9_NotOnNamed(i) ==
    /\ ~C9_Unresolved(i)
    /\ ~hasattr(find_spec(ModuleName(C9_Name(i))), FuncName(C9_Name(i)))
\* the function is missing from the module the lookup uses: the named module
\* when it is found, the current module when the name is not found
C9_NotOnLookup(i) ==
    /\ find_spec(ModuleName(C9_Name(i))) # "ModuleNotFoundError"
    /\ ~hasattr(ResolvedModule(find_spec(ModuleName(C9_Name(i)))), FuncName(C9_Name(i)))
C9_FallsBack(i) ==
    /\ find_spec(ModuleName(C9_Name(i))) = "None"
    /\ hasattr("current", FuncName(C9_Name(i)))
C9_LookupError(i) ==
    /\ ~dispatch.ok
    /\ dispatch.err = "AttributeError"
    /\ dispatch.func = FuncName(C9_Name(i))
    /\ dispatch.module = ModuleName(C9_Name(i))
    /\ dispatch.invoked = Keys(SubSeq(C9_Ops, 1, i - 1))

\* C9 as stated: an operation whose module name cannot be resolved, or whose
\* function does not exist on the resolved module, makes dispatch fail with a
\* lookup error naming function and module; nothing is invoked for it and none
\* of the operations after it is applied.
C9_Original ==
    dispatch.ran =>
        \A i \in 1..Len(C9_Ops) :
            (C9_Reached(i) /\ (C9_Unresolved(i) \/ C9_NotOnNamed(i))) => C9_LookupError(i)

\* C9: an operation whose function is missing from the module the lookup uses
\* makes dispatch fail with a lookup error naming function and module name,
\* with nothing invoked for it and nothing after it applied; a function of the
\* current module under a module name that is not found is invoked all the same;
\* a dotted module name whose parent cannot be imported fails with
\* ModuleNotFoundError before anything is invoked for it.
C9_LookupFailureAborts ==
    dispatch.ran =>
        \A i \in 1..Len(C9_Ops) :
            C9_Reached(i) =>
                /\ C9_NotOnLookup(i) => C9_LookupError(i)
                /\ C9_FallsBack(i) =>
                      /\ Len(dispatch.invoked) >= i
                      /\ dispatch.invoked[i] = C9_Name(i)
                /\ find_spec(ModuleName(C9_Name(i))) = "ModuleNotFoundError" =>
                      /\ ~dispatch.ok
                      /\ dispatch.err = "ModuleNotFoundError"
                      /\ dispatch.invoked = Keys(SubSeq(C9_Ops, 1, i - 1))

\* dispatch stopped at a second operation whose function is missing, after the
\* first was applied and before a third
C9_Witness ==
    /\ pc = "error" /\ dispatch.ran
    /\ \E i \in 2..Len(C9_Ops) :
          /\ i < Len(C9_Ops)
          /\ C9_NotOnLookup(i)
          /\ C9_LookupError(i)
          /\ Len(dispatch.invoked) = i - 1

\* C10: process_exception returns the 404 inline message exactly for Http404 on
\* an HTMX request that is not boosted; otherwise it returns None and leaves the
\* request's pending operations as they were.
C10_NotFoundOnlyForHtmx ==
    handled.ran =>
        /\ handled.returned \in {"response", "None"}
        /\ handled.returned = "response" <=>
              (exc = "Http404" /\ request.htmx /\ ~request.boosted)
        /\ handled.returned = "response" =>
              /\ pc = "response" => response = HttpResponse(404, "inline_msg")
              /\ response.status = 404 /\ response.content = "inline_msg"
        /\ handled.returned = "None" =>
              /\ request.ftp = handled.pre
              /\ pc = "unhandled" => response = NoResponse

C10_Witness ==
    /\ handled.ran /\ handled.returned = "response"
    /\ exc = "Http404" /\ request.htmx /\ ~request.boosted
    /\ pc = "response" /\ response.status = 404

(***************************************************************************)
(* Claims about DynamicHXChoiceField (specification SpecField)             *)
(***************************************************************************)
\* C7: validating a value that is not among the field's choices succeeds and
\* appends (value, value) to the choices when the field was constructed with
\* allow_new_choices True, and raises a validation error when it was
\* constructed with allow_new_choices False.
C7_NewChoiceAdmitted ==
    (validation.ran /\ validation.value # <<>> /\ ~HasKey(validation.pre, validation.value)) =>
        IF field.allow_arg
        THEN /\ validation.outcome = "ok"
             /\ field.f.choices = Append(validation.pre, <<validation.value, validation.value>>)
        ELSE /\ validation.outcome = "ValidationError"

\* C8: a field constructed without a choice URL validates as a static choice
\* field: a value among its choices is accepted, a value that is not raises a
\* validation error, and its choices stay as they are.
C8_StaticWithoutUrl ==
    (validation.ran /\ ~is_not_none(field.url) /\ validation.value # <<>>) =>
        /\ ~field.f.dynamic
        /\ validation.outcome =
              IF HasKey(validation.pre, validation.value) THEN "ok" ELSE "ValidationError"
        /\ field.f.choices = validation.pre

(***************************************************************************)
(* Claims about the order and composition of dispatch (specification Spec) *)
(***************************************************************************)
C11_Start == SetHeader(orig, str_Cache_Control, str_no_store)
\* the response after the first n pending operations, each applied to what the
\* one before it returned
RECURSIVE C11_Composed(_)
C11_Composed(n) ==
    IF n = 0 THEN C11_Start
    ELSE Invoke(FuncName(C9_Name(n)), C11_Composed(n - 1),
                BindArgs(FuncName(C9_Name(n)), C9_Ops[n][2]).vals).resp
C11_OnlyReselectMain ==
    C9_Ops = <<<<str_reselect, PStr(str_main)>>>>
C11_InOrder ==
    /\ dispatch.invoked = [i \in 1..Len(C9_Ops) |-> C9_Name(i)]
    /\ dispatch.resp = C11_Composed(Len(C9_Ops))
    /\ response = dispatch.resp

\* C11 as stated: a dispatch that returns has applied the pending operations in
\* insertion order, each to the response the one before it returned, and returns
\* the last one's response; with {"reselect": "#main"} pending the returned
\* response has X-Reselect set to "#main".
C11_Original ==
    (pc = "done" /\ dispatch.ran) =>
        /\ C11_InOrder
        /\ C11_OnlyReselectMain => C_HeaderIs(response, str_X_Reselect, str_main)

\* C11: a dispatch that returns has applied the pending operations in insertion
\* order, each to the response the one before it returned, and returns the last
\* one's response; with {"reselect": "#main"} pending the returned response has
\* HX-Reselect set to "#main".
C11_DispatchComposesInOrder ==
    (pc = "done" /\ dispatch.ran) =>
        /\ C11_InOrder
        /\ C11_OnlyReselectMain =>
              /\ C_HeaderIs(response, str_HX_Reselect, str_main)
              /\ ~HasHeader(response, str_X_Reselect)

\* two pending operations that both write HX-Reselect: the later one's value is
\* the one returned
C11_Witness ==
    /\ pc = "done" /\ dispatch.ran
    /\ Len(C9_Ops) = 2
    /\ dispatch.invoked = <<str_reselect, Dotted(str_nomod, str_reselect)>>
    /\ C9_Ops[1][2] = PStr(str_main) /\ C9_Ops[2][2] = PStr(str_x)
    /\ C_HeaderIs(response, str_HX_Reselect, str_x)

(***************************************************************************)
(* Claims about modify_htmx_response (specification Spec)                  *)
(***************************************************************************)
C12_Names == UNION {KeySet(registered[i].kv) : i \in 1..Len(registered)}
\* the last call that registered the name k
C12_Last(k) ==
    CHOOSE i \in 1..Len(registered) :
        /\ HasKey(registered[i].kv, k)
        /\ \A j \in (i + 1)..Len(registered) : ~HasKey(registered[j].kv, k)
\* the first call that registered the name k
C12_First(k) ==
    CHOOSE i \in 1..Len(registered) :
        /\ HasKey(registered[i].kv, k)
        /\ \A j \in 1..(i - 1) : ~HasKey(registered[j].kv, k)

\* C12: after any sequence of modify_htmx_response calls on a request, the
\* pending-operations mapping exists exactly when a call was made, holds every
\* registered name exactly once with the arguments of the last call that
\* registered it, in the order in which the names were first registered, and
\* the request is otherwise the one that was passed in.
C12_PendingIsRightBiasedMerge ==
    /\ request.ftp.set <=> registered # <<>>
    /\ request.ftp.set =>
          /\ request.ftp.v.t = "dict"
          /\ KeySet(request.ftp.v.kv) = C12_Names
          /\ Cardinality(C12_Names) = Len(request.ftp.v.kv)
          /\ \A k \in C12_Names :
                GetKey(request.ftp.v.kv, k) = GetKey(registered[C12_Last(k)].kv, k)
          /\ \A i, j \in 1..Len(request.ftp.v.kv) :
                i < j => C12_First(request.ftp.v.kv[i][1]) <= C12_First(request.ftp.v.kv[j][1])
    /\ ~request.ftp.set => request.ftp = NoFtp
    /\ request.htmx = (pc # "request" /\ request.hx_request)

\* three calls on one request, one of which registers again a name that an
\* earlier call registered with other arguments
C12_Witness ==
    /\ Len(registered) = 3
    /\ \E i, j \in 1..3 :
          /\ i < j
          /\ \E k \in KeySet(registered[j].kv) :
                /\ HasKey(registered[i].kv, k)
                /\ GetKey(registered[i].kv, k) # GetKey(registered[j].kv, k)
                /\ C12_Last(k) = j
                /\ GetKey(request.ftp.v.kv, k) = GetKey(registered[j].kv, k)
    /\ Len(request.ftp.v.kv) >= 2

\* C13: a validate call that raises a validation error leaves the field's
\* choices as they were, for every value and both settings of
\* allow_new_choices; the choices change only on a validation that succeeds.
C13_ErrorLeavesChoices ==
    validation.ran =>
        /\ validation.outcome = "ValidationError" => field.f.choices = validation.pre
        /\ field.f.choices # validation.pre => validation.outcome = "ok"

====
